---- MODULE Spec2Model ----
(***************************************************************************)
(* Model of app.py: the zipcode geocoding pipeline (process_csv_zipcodes,  *)
(* geocode_zipcode), the marker encoding and map construction (create_map) *)
(* and the part of main() that validates the upload, runs the pipeline and *)
(* decides what is shown.                                                  *)
(*                                                                         *)
(* Representation.  Python None is the empty tuple and a present value v   *)
(* is <<v>>.  Zip codes are integers, as pandas reads them from a CSV.     *)
(* A fraction is a record [num, den] with den > 0, kept unreduced: the     *)
(* code's float t = (m - min)/(max - min) is the fraction                  *)
(* [num |-> m - min, den |-> max - min], and a comparison t >= k/10 is     *)
(* 10*num >= k*den (IEEE division is correctly rounded, so for household   *)
(* counts of this size the float comparison and the exact one agree).      *)
(* Row positions are 1-based; the code's index is the position minus 1.    *)
(***************************************************************************)
EXTENDS Integers, Sequences, FiniteSets, TLC

VARIABLES
    uploaded_file,        \* the upload: [present, columns, rows]
    button,               \* value st.button returned in this script run
    pc,                   \* position of the script
    df,                   \* the dataframe process_csv_zipcodes works on
    index,                \* position of the row the loop is at (1-based)
    lat, lon,             \* locals of process_csv_zipcodes (line 55)
    successful_geocodes,  \* local counter (line 50)
    calls,                \* provider calls so far: <<[query, answer], ...>>
    events,               \* order of "call" (provider call starts), "return"
                          \* (it returns or raises) and "sleep" (time.sleep done)
    progress,             \* fractions passed to progress_bar.progress in the loop
    warnings,             \* zipcodes st.warning was issued for (line 32)
    processed_df,         \* main's processed_df / create_map's argument
    session_state,        \* st.session_state, as a set of <<key, value>>
    map_obj,              \* result of create_map
    ui                    \* elements main has displayed

vars == <<uploaded_file, button, pc, df, index, lat, lon, successful_geocodes,
          calls, events, progress, warnings, processed_df,
          session_state, map_obj, ui>>

----------------------------------------------------------------------------
(* Bounds and input domains *)

MaxRows == 3
MaxMapRows == 3
MaxMagnitude == 5

None == <<>>
Some(v) == <<v>>

\* zip codes and household counts of the sample table (lines 204-205)
Zips == {10001, 90210}
Households == {1800, 2500}

\* coordinates a provider answer may carry; 0 is a legal latitude/longitude
LatValues == {0, 40}
LonValues == {0, -74}

Magnitudes == 0..MaxMagnitude
MapCoords == {<<40, -74>>, <<34, -118>>}

required_columns == {"zipcode", "no_of_households"}

ColValues(c) == IF c = "zipcode" THEN Zips ELSE Households

InputRows(columns) ==
    {r \in [columns -> Zips \cup Households] : \A c \in columns : r[c] \in ColValues(c)}

SeqsUpTo(S, n) == UNION {[1..k -> S] : k \in 0..n}

Uploads ==
    {[present |-> FALSE, columns |-> {}, rows |-> <<>>]}
    \cup {[present |-> TRUE, columns |-> cols, rows |-> rs] :
            <<cols, rs>> \in UNION {{c} \X SeqsUpTo(InputRows(c), MaxRows) :
                                    c \in SUBSET required_columns}}

\* what geocoder.geocode can do: return a location, return None, or raise
\* (a timeout is one of the exceptions it raises)
ProviderAnswers ==
    {[kind |-> "location", latitude |-> la, longitude |-> lo] :
        la \in LatValues, lo \in LonValues}
    \cup {[kind |-> "none", latitude |-> 0, longitude |-> 0],
          [kind |-> "raise", latitude |-> 0, longitude |-> 0]}

----------------------------------------------------------------------------
(* Pure parts of the code *)

\* Python truthiness of a value that is None or a float
Truthy(x) == x # None /\ x[1] # 0

\* f"{zipcode}, USA" (line 26)
Query(zipcode) == <<zipcode, ", USA">>

\* a validation that looks for the zipcode column only
missing_columns_ZipcodeOnly(columns) == {col \in {"zipcode"} : col \notin columns}

\* lines 248-249
missing_columns(columns) == {col \in required_columns : col \notin columns}

\* lines 42-44: the three columns added to every row
InitColumns(row) ==
    [latitude |-> None, longitude |-> None, geocoding_status |-> "Pending"] @@ row

\* lines 24-33: what geocode_zipcode returns for a provider answer; a raised
\* exception is caught, a warning is issued and (None, None) is returned
geocode_zipcode(answer) ==
    IF answer.kind = "location"
    THEN [lat |-> Some(answer.latitude), lon |-> Some(answer.longitude), warned |-> FALSE]
    ELSE [lat |-> None, lon |-> None, warned |-> (answer.kind = "raise")]

\* an else branch that leaves the status as it was
MarkRow_LeavesPending(d, i, la, lo) ==
    IF Truthy(la) /\ Truthy(lo)
    THEN [d EXCEPT ![i].latitude = la, ![i].longitude = lo,
                   ![i].geocoding_status = "Success"]
    ELSE d

\* the coordinates stored before the test instead of inside its first branch
MarkRow_StoresBeforeTest(d, i, la, lo) ==
    IF Truthy(la) /\ Truthy(lo)
    THEN [d EXCEPT ![i].latitude = la, ![i].longitude = lo,
                   ![i].geocoding_status = "Success"]
    ELSE [d EXCEPT ![i].latitude = la, ![i].longitude = lo,
                   ![i].geocoding_status = "Failed"]

\* lines 57-63: the row at position i after the if/else
MarkRow(d, i, la, lo) ==
    IF Truthy(la) /\ Truthy(lo)
    THEN [d EXCEPT ![i].latitude = la, ![i].longitude = lo,
                   ![i].geocoding_status = "Success"]
    ELSE [d EXCEPT ![i].geocoding_status = "Failed"]

\* lines 57, 61
CountSuccess(n, la, lo) == IF Truthy(la) /\ Truthy(lo) THEN n + 1 ELSE n

----------------------------------------------------------------------------
(* create_map, lines 75-176 *)

DefaultRadius == 25

Frac(n, d) == [num |-> n, den |-> d]

Positions(d) == [i \in 1..Len(d) |-> i]

\* line 80: dropna(subset=['latitude', 'longitude']); the positions kept, in order
valid_coords(d) ==
    SelectSeq(Positions(d), LAMBDA i : d[i].latitude # None /\ d[i].longitude # None)

RECURSIVE SumLatitude(_, _)
SumLatitude(d, ps) ==
    IF ps = <<>> THEN 0 ELSE d[Head(ps)].latitude[1] + SumLatitude(d, Tail(ps))

RECURSIVE SumLongitude(_, _)
SumLongitude(d, ps) ==
    IF ps = <<>> THEN 0 ELSE d[Head(ps)].longitude[1] + SumLongitude(d, Tail(ps))

\* lines 87-88: the means over valid_coords, as fractions sum/count
Center(d, ps) ==
    [lat |-> Frac(SumLatitude(d, ps), Len(ps)), lon |-> Frac(SumLongitude(d, ps), Len(ps))]

RECURSIVE MinHouseholds(_, _)
\* line 99, over a non-empty ps
MinHouseholds(d, ps) ==
    LET h == d[Head(ps)].no_of_households IN
    IF Len(ps) = 1 THEN h
    ELSE LET r == MinHouseholds(d, Tail(ps)) IN IF h < r THEN h ELSE r

RECURSIVE MaxHouseholds(_, _)
\* line 100, over a non-empty ps
MaxHouseholds(d, ps) ==
    LET h == d[Head(ps)].no_of_households IN
    IF Len(ps) = 1 THEN h
    ELSE LET r == MaxHouseholds(d, Tail(ps)) IN IF h > r THEN h ELSE r

\* line 106
NormalizedSize(households, min_households, max_households) ==
    Frac(households - min_households, max_households - min_households)

\* line 107: 5 + normalized_size * 45
Radius(normalized_size) ==
    Frac(5 * normalized_size.den + normalized_size.num * 45, normalized_size.den)

\* the top threshold open on its lower bound (> 0.8 instead of >= 0.8)
Color_OpenTop(normalized_size) ==
    IF 10 * normalized_size.num > 8 * normalized_size.den THEN "#d73027"
    ELSE IF 10 * normalized_size.num >= 6 * normalized_size.den THEN "#f46d43"
    ELSE IF 10 * normalized_size.num >= 4 * normalized_size.den THEN "#fdae61"
    ELSE IF 10 * normalized_size.num >= 2 * normalized_size.den THEN "#fee08b"
    ELSE "#e0f3f8"

\* lines 112-121
Color(normalized_size) ==
    IF 10 * normalized_size.num >= 8 * normalized_size.den THEN "#d73027"
    ELSE IF 10 * normalized_size.num >= 6 * normalized_size.den THEN "#f46d43"
    ELSE IF 10 * normalized_size.num >= 4 * normalized_size.den THEN "#fdae61"
    ELSE IF 10 * normalized_size.num >= 2 * normalized_size.den THEN "#fee08b"
    ELSE "#e0f3f8"

RECURSIVE MarkerLoop(_, _, _, _, _, _)
\* lines 103-157: the loop over valid_coords.  normalized_size is the local
\* variable: None while it is unbound.  It is assigned only in the branch
\* max_households > min_households (line 106) and read on line 112 in every
\* iteration; reading it unbound raises UnboundLocalError.
MarkerLoop(d, ps, min_households, max_households, normalized_size, markers) ==
    IF ps = <<>> THEN [raised |-> FALSE, markers |-> markers]
    ELSE LET row == d[Head(ps)]
             ns == IF max_households > min_households
                   THEN Some(NormalizedSize(row.no_of_households,
                                            min_households, max_households))
                   ELSE normalized_size
             radius == IF max_households > min_households
                       THEN Radius(ns[1])
                       ELSE Frac(DefaultRadius, 1)
         IN IF ns = None
            THEN [raised |-> TRUE, markers |-> <<>>]
            ELSE MarkerLoop(d, Tail(ps), min_households, max_households, ns,
                            Append(markers,
                                   [row |-> Head(ps),
                                    location |-> <<row.latitude[1], row.longitude[1]>>,
                                    radius |-> radius,
                                    fillColor |-> Color(ns[1])]))

\* lines 75-176.  outcome is "none" (return None after st.error, lines 82-84),
\* "map" (the map is returned) or "raise" (an exception leaves the function)
create_map(d) ==
    LET vc == valid_coords(d) IN
    IF Len(vc) = 0
    THEN [outcome |-> "none", center |-> None, markers |-> <<>>, legend |-> None]
    ELSE LET min_households == MinHouseholds(d, vc)
             max_households == MaxHouseholds(d, vc)
             loop == MarkerLoop(d, vc, min_households, max_households, None, <<>>)
         IN IF loop.raised
            THEN [outcome |-> "raise", center |-> None, markers |-> <<>>, legend |-> None]
            ELSE [outcome |-> "map", center |-> Some(Center(d, vc)),
                  markers |-> loop.markers,
                  legend |-> Some([high |-> max_households, low |-> min_households])]

NoMap == [outcome |-> "unset", center |-> None, markers |-> <<>>, legend |-> None]

----------------------------------------------------------------------------
(* main() and process_csv_zipcodes as a state machine *)

Init ==
    /\ uploaded_file \in Uploads
    /\ button = FALSE
    /\ pc = "main"
    /\ df = <<>>
    /\ index = 0
    /\ lat = None
    /\ lon = None
    /\ successful_geocodes = 0
    /\ calls = <<>>
    /\ events = <<>>
    /\ progress = <<>>
    /\ warnings = <<>>
    /\ processed_df = <<>>
    /\ session_state = {}
    /\ map_obj = NoMap
    /\ ui = {}

pipeline_vars == <<df, index, lat, lon, successful_geocodes, calls, events,
                   progress, warnings>>

\* lines 242, 333-346: no file uploaded, the example is shown
NoFile ==
    /\ pc = "main"
    /\ ~uploaded_file.present
    /\ ui' = ui \cup {"example"}
    /\ pc' = "done"
    /\ UNCHANGED <<uploaded_file, button, processed_df, session_state, map_obj>>
    /\ UNCHANGED pipeline_vars

\* lines 247-254: a required column is missing, main returns
ValidationError ==
    /\ pc = "main"
    /\ uploaded_file.present
    /\ missing_columns(uploaded_file.columns) # {}
    /\ ui' = ui \cup {"error_missing_columns"}
    /\ pc' = "done"
    /\ UNCHANGED <<uploaded_file, button, processed_df, session_state, map_obj>>
    /\ UNCHANGED pipeline_vars

\* lines 256-262: the upload is shown and st.button is evaluated
ShowUpload ==
    /\ pc = "main"
    /\ uploaded_file.present
    /\ missing_columns(uploaded_file.columns) = {}
    /\ ui' = ui \cup {"uploaded_data"}
    /\ \E clicked \in BOOLEAN :
         /\ button' = clicked
         /\ pc' = IF clicked THEN "process" ELSE "done"
    /\ UNCHANGED <<uploaded_file, processed_df, session_state, map_obj>>
    /\ UNCHANGED pipeline_vars

\* lines 265, 39-50: process_csv_zipcodes(df.copy()) up to the loop
StartProcessing ==
    /\ pc = "process"
    /\ df' = [i \in 1..Len(uploaded_file.rows) |-> InitColumns(uploaded_file.rows[i])]
    /\ index' = 1
    /\ successful_geocodes' = 0
    /\ pc' = "loop"
    /\ UNCHANGED <<uploaded_file, button, lat, lon, calls, events, progress, warnings,
                   processed_df, session_state, map_obj, ui>>

\* lines 52-55, 26: the next row is taken and the provider is called
StartCall ==
    /\ pc = "loop"
    /\ index <= Len(df)
    /\ events' = Append(events, "call")
    /\ pc' = "geocode"
    /\ UNCHANGED <<uploaded_file, button, df, index, lat, lon, successful_geocodes,
                   calls, progress, warnings, processed_df, session_state, map_obj, ui>>

\* lines 26-33, 55: the provider answers and geocode_zipcode returns
GeocodeReturn(answer) ==
    /\ pc = "geocode"
    /\ LET r == geocode_zipcode(answer) IN
         /\ lat' = r.lat
         /\ lon' = r.lon
         /\ warnings' = IF r.warned THEN Append(warnings, df[index].zipcode)
                        ELSE warnings
    /\ calls' = Append(calls, [query |-> Query(df[index].zipcode), answer |-> answer])
    /\ events' = Append(events, "return")
    /\ pc' = "record"
    /\ UNCHANGED <<uploaded_file, button, df, index, successful_geocodes, progress,
                   processed_df, session_state, map_obj, ui>>

ProviderLocation ==
    \E a \in ProviderAnswers : a.kind = "location" /\ GeocodeReturn(a)

ProviderNone ==
    \E a \in ProviderAnswers : a.kind = "none" /\ GeocodeReturn(a)

\* geocode_zipcode without its except clause: the exception leaves
\* process_csv_zipcodes and reaches the handler of main (lines 329-331)
ProviderRaises_Propagates ==
    /\ pc = "geocode"
    /\ calls' = Append(calls, [query |-> Query(df[index].zipcode),
                               answer |-> [kind |-> "raise", latitude |-> 0,
                                           longitude |-> 0]])
    /\ events' = Append(events, "return")
    /\ ui' = ui \cup {"error_processing_file"}
    /\ pc' = "done"
    /\ UNCHANGED <<uploaded_file, button, df, index, lat, lon, successful_geocodes,
                   progress, warnings, processed_df, session_state, map_obj>>

ProviderRaises ==
    \E a \in ProviderAnswers : a.kind = "raise" /\ GeocodeReturn(a)

\* lines 57-66: the row's status is recorded and the progress bar updated
RecordResult ==
    /\ pc = "record"
    /\ df' = MarkRow(df, index, lat, lon)
    /\ successful_geocodes' = CountSuccess(successful_geocodes, lat, lon)
    /\ progress' = Append(progress, Frac(index, Len(df)))
    /\ pc' = "sleep"
    /\ UNCHANGED <<uploaded_file, button, index, lat, lon, calls, events, warnings,
                   processed_df, session_state, map_obj, ui>>

\* the sleep placed inside the success branch of the if
Sleep_AfterSuccessOnly ==
    /\ pc = "sleep"
    /\ events' = IF df[index].geocoding_status = "Success"
                 THEN Append(events, "sleep") ELSE events
    /\ index' = index + 1
    /\ pc' = "loop"
    /\ UNCHANGED <<uploaded_file, button, df, lat, lon, successful_geocodes, calls,
                   progress, warnings, processed_df, session_state, map_obj, ui>>

\* line 69, then the loop moves to the next row
Sleep ==
    /\ pc = "sleep"
    /\ events' = Append(events, "sleep")
    /\ index' = index + 1
    /\ pc' = "loop"
    /\ UNCHANGED <<uploaded_file, button, df, lat, lon, successful_geocodes, calls,
                   progress, warnings, processed_df, session_state, map_obj, ui>>

\* lines 71-73, 265-268: the loop is over, df is returned and stored
ReturnDf ==
    /\ pc = "loop"
    /\ index > Len(df)
    /\ processed_df' = df
    /\ session_state' = {<<"processed_data", df>>}
    /\ pc' = "results"
    /\ UNCHANGED <<uploaded_file, button, map_obj, ui>>
    /\ UNCHANGED pipeline_vars

CountStatus(d, status) ==
    Cardinality({i \in 1..Len(d) : d[i].geocoding_status = status})

\* lines 271-327 and the handler of lines 329-331: what main displays
Display(d, m) ==
    LET success_count == CountStatus(d, "Success")
        failed_count == CountStatus(d, "Failed")
    IN {"results"}
       \cup (IF failed_count > 0 THEN {"failed_zipcodes"} ELSE {})
       \cup (IF success_count > 0
             THEN {"map_header"}
                  \cup (IF m.outcome = "raise" THEN {"error_processing_file"}
                        ELSE IF m.outcome = "map"
                        THEN {"map", "download", "processed_data"}
                        ELSE {"error_no_coordinates"})
             ELSE {"error_no_success"})

\* lines 271-331
ShowResults ==
    /\ pc = "results"
    /\ LET m == IF CountStatus(processed_df, "Success") > 0
                THEN create_map(processed_df) ELSE NoMap
       IN /\ map_obj' = m
          /\ ui' = ui \cup Display(processed_df, m)
    /\ pc' = "done"
    /\ UNCHANGED <<uploaded_file, button, processed_df, session_state>>
    /\ UNCHANGED pipeline_vars

Next ==
    \/ NoFile
    \/ ValidationError
    \/ ShowUpload
    \/ StartProcessing
    \/ StartCall
    \/ ProviderLocation
    \/ ProviderNone
    \/ ProviderRaises
    \/ RecordResult
    \/ Sleep
    \/ ReturnDf
    \/ ShowResults

Spec == Init /\ [][Next]_vars

----------------------------------------------------------------------------
(* create_map on its own, applied to every result table the pipeline can   *)
(* return: a Success row has both coordinates set and non-zero, a Failed   *)
(* row has neither                                                         *)

ResultRows ==
    {[zipcode |-> 10001, no_of_households |-> h, latitude |-> None,
      longitude |-> None, geocoding_status |-> "Failed"] : h \in Magnitudes}
    \cup {[zipcode |-> 10001, no_of_households |-> h, latitude |-> Some(c[1]),
           longitude |-> Some(c[2]), geocoding_status |-> "Success"] :
            h \in Magnitudes, c \in MapCoords}

InitMap ==
    /\ uploaded_file = [present |-> FALSE, columns |-> {}, rows |-> <<>>]
    /\ button = FALSE
    /\ pc = "create_map"
    /\ df = <<>>
    /\ index = 0
    /\ lat = None
    /\ lon = None
    /\ successful_geocodes = 0
    /\ calls = <<>>
    /\ events = <<>>
    /\ progress = <<>>
    /\ warnings = <<>>
    /\ processed_df \in SeqsUpTo(ResultRows, MaxMapRows)
    /\ session_state = {}
    /\ map_obj = NoMap
    /\ ui = {}

CreateMapCall ==
    /\ pc = "create_map"
    /\ map_obj' = create_map(processed_df)
    /\ pc' = "map_done"
    /\ UNCHANGED <<uploaded_file, button, processed_df, session_state, ui>>
    /\ UNCHANGED pipeline_vars

NextMap == CreateMapCall

SpecMap == InitMap /\ [][NextMap]_vars

----------------------------------------------------------------------------
(* Properties of the pipeline, checked under Spec *)

N == Len(uploaded_file.rows)

\* process_csv_zipcodes has returned
Returned == button /\ pc \in {"results", "done"}

Resolved == {k \in 1..Len(calls) : calls[k].answer.kind = "location"}

\* C1: once process_csv_zipcodes has returned, the result table has exactly
\* the N input rows in input order and every status is Success or Failed;
\* with N = 0 no provider call is made and (index + 1) / len(df) is never
\* evaluated.
C1_AllRowsReturnedInOrder ==
    /\ Returned =>
         /\ Len(processed_df) = N
         /\ \A i \in 1..N :
              /\ processed_df[i].zipcode = uploaded_file.rows[i].zipcode
              /\ processed_df[i].no_of_households = uploaded_file.rows[i].no_of_households
              /\ processed_df[i].geocoding_status \in {"Success", "Failed"}
    /\ N = 0 => calls = <<>> /\ events = <<>> /\ progress = <<>>

C1_Witness ==
    /\ Returned
    /\ N >= 2
    /\ processed_df[1].geocoding_status = "Failed"
    /\ processed_df[2].geocoding_status = "Success"
    /\ processed_df[1].zipcode # processed_df[2].zipcode

\* C2: after the run, a row whose query the provider resolved to a coordinate
\* (a component equal to 0 included) is Success and holds exactly that
\* latitude and longitude, a row the provider did not resolve is Failed, and
\* the success counter is the number of rows the provider resolved.
C2_StatusFollowsProviderAnswer ==
    Returned =>
      /\ \A i \in 1..Len(processed_df) :
           IF calls[i].answer.kind = "location"
           THEN /\ processed_df[i].geocoding_status = "Success"
                /\ processed_df[i].latitude = Some(calls[i].answer.latitude)
                /\ processed_df[i].longitude = Some(calls[i].answer.longitude)
           ELSE processed_df[i].geocoding_status = "Failed"
      /\ successful_geocodes = Cardinality(Resolved)

\* C3: the k-th provider call is the query of the k-th input row, whatever the
\* earlier calls did (no retry, no skipped row), a raising call ends neither
\* the loop nor process_csv_zipcodes, and when the script is over every row
\* has been queried exactly once and the table has been handed to main.
C3_OneCallPerRowInOrder ==
    /\ Len(calls) <= N
    /\ \A k \in 1..Len(calls) : calls[k].query = Query(uploaded_file.rows[k].zipcode)
    /\ Len(warnings) = Cardinality({k \in 1..Len(calls) : calls[k].answer.kind = "raise"})
    /\ (button /\ pc = "done") =>
         /\ Len(calls) = N
         /\ session_state = {<<"processed_data", processed_df>>}
         /\ Len(processed_df) = N

C3_Witness ==
    /\ button /\ pc = "done"
    /\ N >= 3
    /\ calls[1].answer.kind = "raise"
    /\ calls[2].answer.kind = "none"
    /\ calls[3].answer.kind = "location"
    /\ calls[1].query # calls[3].query

\* C4: from an upload that lacks a required column no provider call is ever
\* made, no result table is produced or stored, and the run ends with the
\* validation error.
C4_MissingColumnStopsBeforeGeocoding ==
    (uploaded_file.present /\ required_columns \ uploaded_file.columns # {}) =>
      /\ calls = <<>>
      /\ events = <<>>
      /\ df = <<>>
      /\ processed_df = <<>>
      /\ session_state = {}
      /\ ~button
      /\ pc \in {"main", "done"}
      /\ pc = "done" => ui = {"error_missing_columns"}

C4_Witness ==
    /\ uploaded_file.present
    /\ uploaded_file.columns = {"no_of_households"}
    /\ Len(uploaded_file.rows) >= 2
    /\ pc = "done"

\* C5: when all N >= 1 rows fail, the run completes with the full table of N
\* Failed rows, the map is not shown, and the download of the table is still
\* offered.
C5_AllFailedStillExports ==
    (button /\ pc = "done" /\ N >= 1 /\ Resolved = {}
       /\ \A i \in 1..Len(processed_df) : processed_df[i].geocoding_status = "Failed") =>
      /\ Len(processed_df) = N
      /\ "map" \notin ui
      /\ "download" \in ui

\* C9: at most one provider call is outstanding, and between the return of a
\* provider call (with a location, with None, or by raising) and the start
\* of the next one a sleep has completed.
C9_SleepBetweenCalls ==
    /\ LET started == Cardinality({k \in 1..Len(events) : events[k] = "call"})
           ended == Cardinality({k \in 1..Len(events) : events[k] = "return"})
       IN /\ started - ended \in {0, 1}
          /\ started - ended = 1 <=> pc = "geocode"
          /\ ended = Len(calls)
    /\ \A j \in 1..Len(events) :
         events[j] = "call" =>
           \A i \in 1..(j - 1) :
             events[i] = "return" => \E k \in (i + 1)..(j - 1) : events[k] = "sleep"

C9_Witness ==
    /\ pc = "geocode"
    /\ Len(calls) = 2
    /\ calls[1].answer.kind = "none"
    /\ calls[2].answer.kind = "raise"

\* the rows the loop is done with
Processed(i) == i < index \/ (i = index /\ pc = "sleep")

RowConsistent(r) ==
    /\ r.geocoding_status \in {"Pending", "Success", "Failed"}
    /\ r.geocoding_status = "Success" => r.latitude # None /\ r.longitude # None
    /\ r.geocoding_status \in {"Pending", "Failed"} =>
         r.latitude = None /\ r.longitude = None

C10_StateInvariant ==
    \A i \in 1..Len(df) :
      /\ RowConsistent(df[i])
      /\ df[i].geocoding_status = "Pending" <=> ~Processed(i)

C10_Step ==
    /\ pc = "process" =>
         \A i \in 1..Len(df') :
           /\ df'[i].geocoding_status = "Pending"
           /\ df'[i].latitude = None /\ df'[i].longitude = None
    /\ pc # "process" =>
         /\ Len(df') = Len(df)
         /\ \A i \in 1..Len(df) :
              df'[i] # df[i] =>
                /\ pc = "record" /\ i = index
                /\ df[i].geocoding_status = "Pending"
                /\ df'[i].geocoding_status \in {"Success", "Failed"}

\* C10: every row starts Pending with both coordinates absent, changes once,
\* when the loop processes it, to Success or Failed, and never again; in
\* every state Success goes with both coordinates set and Pending or Failed
\* with both absent.
C10_StatusLifecycle == [](C10_StateInvariant) /\ [][C10_Step]_vars

C10_Witness ==
    /\ Len(df) >= 3
    /\ pc = "sleep" /\ index = 2
    /\ df[1].geocoding_status = "Success"
    /\ df[2].geocoding_status = "Failed"
    /\ calls[2].answer.kind = "location"
    /\ df[3].geocoding_status = "Pending"

----------------------------------------------------------------------------
(* Properties of create_map, checked under SpecMap *)

SuccessRows == {i \in 1..Len(processed_df) : processed_df[i].geocoding_status = "Success"}

SuccessMagnitudes == {processed_df[i].no_of_households : i \in SuccessRows}

MinOf(M) == CHOOSE m \in M : \A x \in M : m <= x
MaxOf(M) == CHOOSE m \in M : \A x \in M : m >= x

Bucket(color) ==
    CASE color = "#d73027" -> 5
      [] color = "#f46d43" -> 4
      [] color = "#fdae61" -> 3
      [] color = "#fee08b" -> 2
      [] color = "#e0f3f8" -> 1

\* the bucket of magnitude m by the thresholds 0.8, 0.6, 0.4, 0.2 on
\* t = (m - lo)/(hi - lo), each closed on its lower bound
ExpectedBucket(m, lo, hi) ==
    IF 5 * (m - lo) >= 4 * (hi - lo) THEN 5
    ELSE IF 5 * (m - lo) >= 3 * (hi - lo) THEN 4
    ELSE IF 5 * (m - lo) >= 2 * (hi - lo) THEN 3
    ELSE IF 5 * (m - lo) >= 1 * (hi - lo) THEN 2
    ELSE 1

MarkerMagnitude(mk) == processed_df[mk.row].no_of_households

\* C6: when all successful rows have one magnitude (a single successful row
\* included), create_map returns the map, every marker has radius 25 and
\* all markers have the same color.
C6_DegenerateDefaultRadius ==
    (pc = "map_done" /\ Cardinality(SuccessMagnitudes) = 1) =>
      /\ map_obj.outcome = "map"
      /\ Len(map_obj.markers) = Cardinality(SuccessRows)
      /\ \A k \in 1..Len(map_obj.markers) :
           /\ map_obj.markers[k].radius.num = 25 * map_obj.markers[k].radius.den
           /\ map_obj.markers[k].fillColor = map_obj.markers[1].fillColor

\* C7: when the successful rows do not all have one magnitude, with lo and hi
\* the extremes over the successful rows only: every radius is
\* 5 + 45*(m - lo)/(hi - lo) and within [5, 50], some radius is 5 and some
\* is 50, a row at hi is in bucket 5 and a row at lo in bucket 1, the bucket
\* is the one the thresholds 0.2, 0.4, 0.6, 0.8 (closed below) give, and it
\* never decreases as the magnitude grows.
C7_RadiusAndBuckets ==
    (pc = "map_done" /\ Cardinality(SuccessMagnitudes) > 1) =>
      LET lo == MinOf(SuccessMagnitudes)
          hi == MaxOf(SuccessMagnitudes)
          ms == map_obj.markers
      IN /\ map_obj.outcome = "map"
         /\ Len(ms) = Cardinality(SuccessRows)
         /\ \A k \in 1..Len(ms) :
              LET m == MarkerMagnitude(ms[k]) r == ms[k].radius IN
              /\ r.den > 0
              /\ r.num * (hi - lo) = (5 * (hi - lo) + 45 * (m - lo)) * r.den
              /\ 5 * r.den <= r.num /\ r.num <= 50 * r.den
              /\ Bucket(ms[k].fillColor) = ExpectedBucket(m, lo, hi)
              /\ m = hi => Bucket(ms[k].fillColor) = 5
              /\ m = lo => Bucket(ms[k].fillColor) = 1
         /\ \E k \in 1..Len(ms) : ms[k].radius.num = 5 * ms[k].radius.den
         /\ \E k \in 1..Len(ms) : ms[k].radius.num = 50 * ms[k].radius.den
         /\ \A j, k \in 1..Len(ms) :
              MarkerMagnitude(ms[j]) <= MarkerMagnitude(ms[k]) =>
                Bucket(ms[j].fillColor) <= Bucket(ms[k].fillColor)

C7_Witness ==
    /\ pc = "map_done"
    /\ map_obj.outcome = "map"
    /\ Len(processed_df) = 3
    /\ processed_df[1].no_of_households = 4
    /\ processed_df[2].no_of_households = 0
    /\ processed_df[3].no_of_households = 5
    /\ Cardinality(SuccessRows) = 3
    /\ Bucket(map_obj.markers[1].fillColor) = 5

SumOf(f, S) ==
    LET RECURSIVE Go(_)
        Go(T) == IF T = {} THEN 0
                 ELSE LET x == CHOOSE y \in T : TRUE IN f[x] + Go(T \ {x})
    IN Go(S)

\* C8: the rows create_map averages for the center and renders as markers
\* are exactly the Success rows, the magnitude extremes are those of the
\* Success rows, the Failed rows stay in the table, and with no Success row
\* create_map returns the no-data failure.
C8_OnlySuccessRowsOnMap ==
    pc = "map_done" =>
      /\ SuccessRows = {} => map_obj.outcome = "none"
      /\ SuccessRows # {} =>
           /\ map_obj.outcome = "map"
           /\ {map_obj.markers[k].row : k \in 1..Len(map_obj.markers)} = SuccessRows
           /\ Len(map_obj.markers) = Cardinality(SuccessRows)
           /\ map_obj.center[1].lat.num * Cardinality(SuccessRows) =
                SumOf([i \in SuccessRows |-> processed_df[i].latitude[1]], SuccessRows)
                  * map_obj.center[1].lat.den
           /\ map_obj.center[1].lon.num * Cardinality(SuccessRows) =
                SumOf([i \in SuccessRows |-> processed_df[i].longitude[1]], SuccessRows)
                  * map_obj.center[1].lon.den
           /\ map_obj.legend[1].low = MinOf(SuccessMagnitudes)
           /\ map_obj.legend[1].high = MaxOf(SuccessMagnitudes)
      /\ \A i \in 1..Len(processed_df) :
           processed_df[i].geocoding_status = "Failed" =>
             processed_df[i].latitude = None /\ processed_df[i].longitude = None

====
